---------------------------- MODULE Spec2Model ----------------------------
(***************************************************************************)
(* Model of firmware/main.py: the chord keyboard's poll loop (sample,      *)
(* debounce, release-all, key report), the BLE connection bookkeeping of   *)
(* BLEKeyboard and the key report encoder.                                 *)
(*                                                                         *)
(* Time is the wrapping millisecond counter utime.ticks_ms(); the counter  *)
(* period is scaled down to TICKS_PERIOD so that wraparound is reachable.  *)
(* History variables observe the run without influencing it: idle (true    *)
(* milliseconds since the last accepted change), events (accepted chords), *)
(* reports (reports handed to send_report), played and accepted_at         *)
(* (recorded runs), irqs (logged runs), steady, received and heard         *)
(* (observed runs).                                                        *)
(***************************************************************************)
EXTENDS Integers, Sequences, FiniteSets, TLC

VARIABLES
    last_state,   \* main: last accepted chord (tuple of button indices)
    last_change,  \* main: ticks_ms() value of the last accepted change
    state,        \* main: the tick's sample (not read again after the sleep)
    pins,         \* the pin levels that sample read (1 idle, 0 pressed)
    clock,        \* utime.ticks_ms(): wrapping millisecond counter
    pc,           \* main: position in the loop body
    connections,  \* BLEKeyboard._connections
    info_value,   \* value written to the HID information characteristic
    adv,          \* the latest advertising_payload call (at first line 176's)
    advertised,   \* gap_advertise calls made by the latest _irq (by __init__ at first)
    notified,     \* gatts_notify calls of the latest send_report call
    reports,      \* history: reports passed to send_report
    events,       \* history: chords accepted as the stable chord
    idle,         \* history: true ms since the last accepted change (capped)
    played,       \* history: the samples taken so far (recorded runs only)
    accepted_at,  \* history: number of the sample of each accepted change
    recording,    \* TRUE in a recorded run: 10 ms ticks, histories are kept
    call,         \* the latest direct key_press call and the report it built
    irqs,         \* history: the _irq events delivered (logged runs only)
    logging,      \* TRUE in a logged run: the _irq events are kept
    steady,       \* history: handles connected since the last accepted change
    received,     \* history: the last report each connected peer was sent
    heard,        \* history: reports each connected peer was sent this tick
    observing     \* TRUE in an observed run: the peer histories are kept

vars == <<last_state, last_change, state, clock, pc, connections, advertised,
          notified, reports, events, idle, played, recording, call,
          irqs, logging, pins, info_value, adv, accepted_at, steady,
          received, heard, observing>>

---------------------------------------------------------------------------
(* Bounds of the model *)

\* Period of the millisecond counter (2^30 on the device), scaled down.
TICKS_PERIOD == 84
\* Extra milliseconds, beyond POLL_INTERVAL_MS, that one loop turn may take.
MaxJitter == 5
\* The history variable idle stops counting here ("at least MaxIdle").
MaxIdle == 120
\* Number of samples of a recorded run.
MaxScript == 7
\* Longest keycode list handed to a direct key_press call.
MaxKeycodes == 7
\* Number of _irq events of a logged run.
MaxIrqs == 4
\* Longest service list handed to a direct advertising_payload call.
MaxServices == 2

\* Connection handles the radio stack may report.
Handles == {1, 2}
\* ticks_ms() values at which main() may start.
StartTicks == {0, TICKS_PERIOD - 15}

---------------------------------------------------------------------------
(* Configuration data of main.py *)

IRQ_CENTRAL_CONNECT == 1
IRQ_CENTRAL_DISCONNECT == 2

DEBOUNCE_MS == 25
POLL_INTERVAL_MS == 10

BUTTON_PINS == <<0, 1, 2, 3, 4, 5>>

\* struct.pack codes "<H" and "<B": unsigned 16 bits little-endian, one byte.
PackH(v) == <<v % 256, (v \div 256) % 256>>
PackB(v) == <<v % 256>>

\* struct.pack("<HHBB", *args)
StructPack_HHBB(args) ==
    PackH(args[1]) \o PackH(args[2]) \o PackB(args[3]) \o PackB(args[4])

\* _HID_INFO (line 18): pack of 0x0111, 0x0000, 0x01, 0x01
HID_INFO == StructPack_HHBB(<<273, 0, 1, 1>>)

\* bytes(bluetooth.UUID(v)) of a 16-bit and of a 32-bit UUID: little-endian.
UUID16(v) == PackH(v)
UUID32(hi, lo) == PackH(lo) \o PackH(hi)
\* bytes() of the 128-bit UUID 6E400001-B5A3-F393-E0A9-E50E24DCCA9E
UUID128 == <<158, 202, 220, 36, 14, 229, 169, 224,
             147, 243, 163, 181, 1, 0, 64, 110>>

\* _HID_UUID (line 74): bluetooth.UUID(0x1812)
HID_UUID == UUID16(6162)

\* str.encode() on the characters device names are made of here.
CharCode == [C |-> 67, K |-> 75, P |-> 80, a |-> 97, d |-> 100, h |-> 104,
             o |-> 111, r |-> 114, y |-> 121]
Encode(name) == [i \in 1..Len(name) |-> CharCode[name[i]]]

\* The default of BLEKeyboard's name parameter (line 166): "ChordyPad"
DefaultName == <<"C", "h", "o", "r", "d", "y", "P", "a", "d">>

\* _append with the length byte counting the value alone.
AdAppend_ValueLength(payload, ad_type, value) ==
    payload \o <<Len(value), ad_type>> \o value

\* _append (lines 208-210)
AdAppend(payload, ad_type, value) ==
    payload \o <<Len(value) + 1, ad_type>> \o value

\* The loop of lines 215-220 from the i-th service on.
RECURSIVE AppendServices(_, _, _)
AppendServices(payload, services, i) ==
    IF i > Len(services) THEN payload
    ELSE LET b == services[i]
         IN  AppendServices(
                 IF Len(b) = 2 THEN AdAppend(payload, 3, b)
                 ELSE IF Len(b) = 16 THEN AdAppend(payload, 7, b)
                 ELSE payload,
                 services, i + 1)

\* advertising_payload(name=name, services=services), lines 206-221; an
\* absent name and an empty one are both <<>>.
advertising_payload(name, services) ==
    AppendServices(IF name # <<>> THEN AdAppend(<<>>, 9, Encode(name))
                   ELSE <<>>,
                   services, 1)

\* A call of advertising_payload with what it returned.
AdvertisingCall(name, services) ==
    [name |-> name, services |-> services,
     payload |-> advertising_payload(name, services)]

KEY_CODES ==
    [k \in {"A", "D", "F", "H", "J", "K", "L", "S",
            "ENTER", "BACKSPACE", "TAB", "SPACE"} |->
        CASE k = "A" -> 4
          [] k = "D" -> 7
          [] k = "F" -> 9
          [] k = "H" -> 11
          [] k = "J" -> 13
          [] k = "K" -> 14
          [] k = "L" -> 15
          [] k = "S" -> 22
          [] k = "ENTER" -> 40
          [] k = "BACKSPACE" -> 42
          [] k = "TAB" -> 43
          [] k = "SPACE" -> 44]

\* The dictionary's items: key tuple, modifier, keycode list.
COMBO_MAP ==
    { [chord |-> <<0>>,    modifier |-> 0, keycodes |-> <<KEY_CODES["F"]>>],
      [chord |-> <<1>>,    modifier |-> 0, keycodes |-> <<KEY_CODES["J"]>>],
      [chord |-> <<2>>,    modifier |-> 0, keycodes |-> <<KEY_CODES["D"]>>],
      [chord |-> <<3>>,    modifier |-> 0, keycodes |-> <<KEY_CODES["K"]>>],
      [chord |-> <<4>>,    modifier |-> 0, keycodes |-> <<KEY_CODES["S"]>>],
      [chord |-> <<5>>,    modifier |-> 0, keycodes |-> <<KEY_CODES["L"]>>],
      [chord |-> <<0, 1>>, modifier |-> 0, keycodes |-> <<KEY_CODES["SPACE"]>>],
      [chord |-> <<2, 3>>, modifier |-> 0, keycodes |-> <<KEY_CODES["ENTER"]>>],
      [chord |-> <<4, 5>>, modifier |-> 0, keycodes |-> <<KEY_CODES["TAB"]>>],
      [chord |-> <<0, 2>>, modifier |-> 2, keycodes |-> <<KEY_CODES["A"]>>],
      [chord |-> <<1, 3>>, modifier |-> 2, keycodes |-> <<KEY_CODES["H"]>>],
      [chord |-> <<0, 5>>, modifier |-> 0, keycodes |-> <<KEY_CODES["BACKSPACE"]>>] }

---------------------------------------------------------------------------
(* Pure functions *)

\* utime.ticks_diff(a, b): signed difference modulo the counter period.
ticks_diff(a, b) ==
    ((a - b + (TICKS_PERIOD \div 2)) % TICKS_PERIOD) - (TICKS_PERIOD \div 2)

\* [0x00] * n  (the empty list for n <= 0)
Zeros(n) == [i \in 1..(IF n > 0 THEN n ELSE 0) |-> 0]

\* The value struct.pack never returns: the call raised.
PackError == <<-1>>

\* struct.pack("<BB6B", *args): eight unsigned bytes, one per argument.
StructPack_BB6B(args) ==
    IF Len(args) = 8 /\ \A i \in 1..8 : args[i] \in 0..255
    THEN args
    ELSE PackError

\* Line 198 with the report id and the modifier in each other's place.
key_press_report_Swapped(modifier, keycodes) ==
    LET padded == keycodes \o Zeros(6 - Len(keycodes))
    IN  StructPack_BB6B(<<modifier, 1>> \o padded)

\* The report key_press builds (lines 197-198).
key_press_report(modifier, keycodes) ==
    LET padded == keycodes \o Zeros(6 - Len(keycodes))
    IN  StructPack_BB6B(<<1, modifier>> \o padded)

\* What line 198 can give: the report, and with more than six keycodes
\* (nothing is padded, struct.pack gets nine or more arguments) either
\* struct.error, as CPython raises it, or the pack of the first eight
\* arguments, as MicroPython's struct, which does not check the argument
\* count, returns it.
key_press_outcomes(modifier, keycodes) ==
    IF Len(keycodes) <= 6
    THEN {key_press_report(modifier, keycodes)}
    ELSE {PackError,
          StructPack_BB6B(SubSeq(<<1, modifier>> \o keycodes, 1, 8))}

\* The report release_all builds (line 202).
release_all_report == StructPack_BB6B(<<1, 0, 0, 0, 0, 0, 0, 0>>)

\* Line 229 without its "not": the pins that read 1 are listed.
RECURSIVE ScanFrom_High(_, _)
ScanFrom_High(levels, i) ==
    IF i > Len(BUTTON_PINS) THEN <<>>
    ELSE (IF levels[i] = 1 THEN <<i - 1>> ELSE <<>>)
             \o ScanFrom_High(levels, i + 1)

\* scan_buttons: indices, in enumeration order, of the pins that read 0.
RECURSIVE ScanFrom(_, _)
ScanFrom(levels, i) ==
    IF i > Len(BUTTON_PINS) THEN <<>>
    ELSE (IF levels[i] = 0 THEN <<i - 1>> ELSE <<>>) \o ScanFrom(levels, i + 1)

scan_buttons(levels) == ScanFrom(levels, 1)

\* A lookup that also matches every entry whose buttons are all pressed.
ComboGet_Subset(chord) ==
    {c \in COMBO_MAP :
        \A i \in 1..Len(c.chord) :
            \E j \in 1..Len(chord) : chord[j] = c.chord[i]}

\* COMBO_MAP.get(chord): the matching items (none: the lookup returns None).
ComboGet(chord) == {c \in COMBO_MAP : c.chord = chord}

\* Line 244 with the window test off by one (>= for >).
Accepts_AtWindow(raw, now) ==
    raw # last_state /\ ticks_diff(now, last_change) >= DEBOUNCE_MS

\* Line 244 without the comparison against last_state.
Accepts_NoCompare(raw, now) ==
    ticks_diff(now, last_change) > DEBOUNCE_MS

\* Line 244 without the window test.
Accepts_NoWindow(raw, now) ==
    raw # last_state

\* The condition of line 244.
Accepts(raw, now) ==
    raw # last_state /\ ticks_diff(now, last_change) > DEBOUNCE_MS

\* The timestamp reset on every mismatching sample, accepted or not.
NextLastChange_OnMismatch(raw, now) ==
    IF raw # last_state THEN now ELSE last_change

\* last_change after the tick's test (lines 244-246).
NextLastChange(raw, now) ==
    IF Accepts(raw, now) THEN now ELSE last_change

\* Only one of the connected handles is notified.
send_targets_first ==
    IF connections = {} THEN {}
    ELSE {CHOOSE h \in connections : \A g \in connections : h <= g}

\* The handles send_report notifies (line 192).
send_targets == connections

---------------------------------------------------------------------------
(* Inputs *)

\* Pin levels (1 idle, 0 pressed) with exactly the buttons of S pressed.
LevelsOf(S) == [i \in 1..Len(BUTTON_PINS) |-> IF (i - 1) \in S THEN 0 ELSE 1]

\* Every reading of the six pins.
AllLevels == [1..Len(BUTTON_PINS) -> {0, 1}]

\* Button combinations the environment presents.
PressedChoices == {{}, {0, 2}, {3, 4}, {0, 1, 2}}
\* Button combinations presented in a recorded run.
RecordedChoices == {{}, {0}, {0, 1}}

PinLevels == {LevelsOf(S) : S \in
                 IF recording THEN RecordedChoices ELSE PressedChoices}

Jitters == IF recording THEN {0} ELSE 0..MaxJitter

\* Arguments of direct advertising_payload calls.
Names == {<<>>, DefaultName, <<"K">>}
Uuids == {HID_UUID, UUID16(6159), UUID32(4660, 22136), UUID128}
ServiceLists == UNION {[1..n -> Uuids] : n \in 0..MaxServices}

\* Arguments of direct key_press calls.
Modifiers == {0, 2, 255}
Keycodes == {4, 44}
KeycodeLists == UNION {[1..n -> Keycodes] : n \in 0..MaxKeycodes}

\* The orders in which a set may be iterated.
Orders(S) ==
    {s \in [1..Cardinality(S) -> S] :
        \A i, j \in 1..Cardinality(S) : i # j => s[i] # s[j]}

Unassigned == <<-1>>
NoCall == [modifier |-> 0, keycodes |-> <<>>, report |-> <<>>]
Min(a, b) == IF a < b THEN a ELSE b

\* What a peer that was sent no report has received.
NoReport == <<>>

\* A peer history after handle h has left the connection set.
Dropped(history, h, nothing) ==
    IF observing THEN [history EXCEPT ![h] = nothing] ELSE history

\* The event history after _irq(event, conn_handle).
Logged(event, conn_handle) ==
    IF logging
    THEN Append(irqs, [event |-> event, conn_handle |-> conn_handle])
    ELSE irqs

---------------------------------------------------------------------------
(* State after BLEKeyboard.__init__ and lines 236-238 of main *)

InitCommon ==
    /\ last_state = <<>>
    /\ clock \in StartTicks
    /\ last_change = clock
    /\ state = Unassigned
    /\ pins = Unassigned
    /\ pc = "poll"
    /\ connections = {}
    /\ info_value = HID_INFO
    /\ adv = AdvertisingCall(DefaultName, <<HID_UUID>>)
    /\ advertised = 1
    /\ notified = <<>>
    /\ reports = <<>>
    /\ events = <<>>
    /\ idle = 0
    /\ played = <<>>
    /\ accepted_at = <<>>
    /\ call = NoCall
    /\ irqs = <<>>
    /\ steady = {}
    /\ received = [h \in Handles |-> NoReport]
    /\ heard = [h \in Handles |-> <<>>]

Init ==
    InitCommon /\ recording = FALSE /\ logging = FALSE /\ observing = FALSE

InitRecorded ==
    InitCommon /\ recording = TRUE /\ logging = FALSE /\ observing = FALSE

InitLogged ==
    InitCommon /\ recording = FALSE /\ logging = TRUE /\ observing = FALSE

InitObserved ==
    InitCommon /\ recording = TRUE /\ logging = FALSE /\ observing = TRUE

---------------------------------------------------------------------------
(* send_report (lines 191-193): one gatts_notify per handle of the set *)

SendReport(report) ==
    /\ \E order \in Orders(send_targets) :
           notified' = [i \in 1..Len(order) |->
                           [conn |-> order[i], report |-> report]]
    /\ reports' = Append(reports, report)
    /\ received' = IF observing
                   THEN [h \in Handles |->
                           IF h \in send_targets THEN report ELSE received[h]]
                   ELSE received
    /\ heard' = IF observing
                THEN [h \in Handles |->
                        IF h \in send_targets THEN Append(heard[h], report)
                        ELSE heard[h]]
                ELSE heard

(* main, lines 241-246: sample, read the clock, test, accept *)
Poll ==
    /\ pc = "poll"
    /\ recording => Len(played) < MaxScript
    /\ \E levels \in PinLevels :
         LET raw == scan_buttons(levels)
             now == clock
         IN  /\ state' = raw
             /\ pins' = levels
             /\ played' = IF recording THEN Append(played, raw) ELSE played
             /\ last_change' = NextLastChange(raw, now)
             /\ IF Accepts(raw, now)
                THEN /\ last_state' = raw
                     /\ events' = Append(events, raw)
                     /\ accepted_at' =
                            IF recording
                            THEN Append(accepted_at, Len(played) + 1)
                            ELSE accepted_at
                     /\ steady' = IF observing THEN connections ELSE steady
                     /\ idle' = 0
                     /\ pc' = "release"
                ELSE /\ UNCHANGED <<last_state, events, accepted_at, idle,
                                    steady>>
                     /\ pc' = "sleep"
    /\ UNCHANGED <<clock, connections, advertised, notified, reports,
                   recording, call, irqs, logging, info_value, adv,
                   observing, received, heard>>

(* Line 247 left out: the loop goes on to the lookup without a release. *)
ReleaseAll_Missing ==
    /\ pc = "release"
    /\ pc' = "press"
    /\ UNCHANGED <<last_state, last_change, state, clock, connections,
                   advertised, notified, reports, events, idle, played,
                   recording, call, irqs, logging, pins, info_value, adv,
                   accepted_at, observing, steady, received, heard>>

(* main, line 247: keyboard.release_all() *)
ReleaseAll ==
    /\ pc = "release"
    /\ SendReport(release_all_report)
    /\ pc' = "press"
    /\ UNCHANGED <<last_state, last_change, state, clock, connections,
                   advertised, events, idle, played, recording, call, irqs,
                   logging, pins, info_value, adv, accepted_at, observing,
                   steady>>

(* main, lines 249-252: look the chord up, send its report if it has one *)
Press ==
    /\ pc = "press"
    /\ LET combo == ComboGet(state)
       IN  IF combo # {}
           THEN \E c \in combo :
                    SendReport(key_press_report(c.modifier, c.keycodes))
           ELSE UNCHANGED <<notified, reports, received, heard>>
    /\ pc' = "sleep"
    /\ UNCHANGED <<last_state, last_change, state, clock, connections,
                   advertised, events, idle, played, recording, call, irqs,
                   logging, pins, info_value, adv, accepted_at, observing,
                   steady>>

(* main, line 254: utime.sleep_ms(POLL_INTERVAL_MS); the counter advances. *)
(* The sample is dead from here on (line 241 replaces it before any read)  *)
(* and a free run drops the tick's histories.                              *)
Sleep ==
    /\ pc = "sleep"
    /\ \E j \in Jitters :
         /\ clock' = (clock + POLL_INTERVAL_MS + j) % TICKS_PERIOD
         /\ idle' = Min(idle + POLL_INTERVAL_MS + j, MaxIdle)
    /\ state' = Unassigned
    /\ pins' = Unassigned
    /\ heard' = [h \in Handles |-> <<>>]
    /\ notified' = <<>>
    /\ reports' = IF recording THEN reports ELSE <<>>
    /\ events' = IF recording THEN events ELSE <<>>
    /\ pc' = "poll"
    /\ UNCHANGED <<last_state, last_change, connections, advertised, played,
                   recording, call, irqs, logging, info_value, adv,
                   accepted_at, observing, steady, received>>

(* Line 182 replacing the set by the new handle instead of adding to it. *)
IrqConnect_Replaces ==
    /\ logging => Len(irqs) < MaxIrqs
    /\ \E h \in Handles :
         /\ connections' = {h}
         /\ irqs' = Logged(IRQ_CENTRAL_CONNECT, h)
    /\ advertised' = 0
    /\ UNCHANGED <<last_state, last_change, state, clock, pc, notified,
                   reports, events, idle, played, recording, call, logging,
                   pins, info_value, adv, accepted_at, observing, steady,
                   received, heard>>

(* _irq with _IRQ_CENTRAL_CONNECT (lines 180-182) *)
IrqConnect ==
    /\ logging => Len(irqs) < MaxIrqs
    /\ \E h \in Handles :
         /\ connections' = connections \cup {h}
         /\ irqs' = Logged(IRQ_CENTRAL_CONNECT, h)
    /\ advertised' = 0
    /\ UNCHANGED <<last_state, last_change, state, clock, pc, notified,
                   reports, events, idle, played, recording, call, logging,
                   pins, info_value, adv, accepted_at, observing, steady,
                   received, heard>>

(* Lines 183-185 alone: the handle is discarded, advertising not restarted. *)
IrqDisconnect_NoAdvertise ==
    /\ logging => Len(irqs) < MaxIrqs
    /\ \E h \in Handles :
         /\ connections' = connections \ {h}
         /\ irqs' = Logged(IRQ_CENTRAL_DISCONNECT, h)
         /\ steady' = steady \ {h}
         /\ received' = Dropped(received, h, NoReport)
         /\ heard' = Dropped(heard, h, <<>>)
    /\ advertised' = 0
    /\ UNCHANGED <<last_state, last_change, state, clock, pc, notified,
                   reports, events, idle, played, recording, call, logging,
                   pins, info_value, adv, accepted_at, observing>>

(* Lines 183-186 followed by a release_all(): the event sends a report. *)
IrqDisconnect_Releases ==
    /\ logging => Len(irqs) < MaxIrqs
    /\ \E h \in Handles :
         /\ connections' = connections \ {h}
         /\ irqs' = Logged(IRQ_CENTRAL_DISCONNECT, h)
         /\ steady' = steady \ {h}
    /\ advertised' = 1
    /\ SendReport(release_all_report)
    /\ UNCHANGED <<last_state, last_change, state, clock, pc, events, idle,
                   played, recording, call, logging, pins, info_value, adv,
                   accepted_at, observing>>

(* Line 185 emptying the set instead of discarding the one handle. *)
IrqDisconnect_Clears ==
    /\ logging => Len(irqs) < MaxIrqs
    /\ \E h \in Handles :
         /\ connections' = {}
         /\ irqs' = Logged(IRQ_CENTRAL_DISCONNECT, h)
         /\ steady' = steady \ {h}
         /\ received' = Dropped(received, h, NoReport)
         /\ heard' = Dropped(heard, h, <<>>)
    /\ advertised' = 1
    /\ UNCHANGED <<last_state, last_change, state, clock, pc, notified,
                   reports, events, idle, played, recording, call, logging,
                   pins, info_value, adv, accepted_at, observing>>

(* _irq with _IRQ_CENTRAL_DISCONNECT (lines 183-186) *)
IrqDisconnect ==
    /\ logging => Len(irqs) < MaxIrqs
    /\ \E h \in Handles :
         /\ connections' = connections \ {h}
         /\ irqs' = Logged(IRQ_CENTRAL_DISCONNECT, h)
         /\ steady' = steady \ {h}
         /\ received' = Dropped(received, h, NoReport)
         /\ heard' = Dropped(heard, h, <<>>)
    /\ advertised' = 1
    /\ UNCHANGED <<last_state, last_change, state, clock, pc, notified,
                   reports, events, idle, played, recording, call, logging,
                   pins, info_value, adv, accepted_at, observing>>

(* A direct call keyboard.key_press(modifier, keycodes) (lines 195-199), *)
(* made once in a run.                                                   *)
KeyPressCall ==
    /\ call = NoCall
    /\ \E m \in Modifiers, ks \in KeycodeLists :
         \E report \in key_press_outcomes(m, ks) :
             /\ call' = [modifier |-> m, keycodes |-> ks, report |-> report]
             /\ IF report # PackError
                THEN SendReport(report)
                ELSE UNCHANGED <<notified, reports, received, heard>>
    /\ UNCHANGED <<last_state, last_change, state, clock, pc, connections,
                   advertised, events, idle, played, recording, irqs,
                   logging, pins, info_value, adv, accepted_at, observing,
                   steady>>

Next == Poll \/ ReleaseAll \/ Press \/ Sleep \/ IrqConnect \/ IrqDisconnect

Spec == Init /\ [][Next]_vars

\* Recorded runs: ticks exactly POLL_INTERVAL_MS apart, histories kept.
SpecRecorded == InitRecorded /\ [][Next]_vars

NextEncode == KeyPressCall \/ IrqConnect \/ IrqDisconnect

\* The encoder called directly with arbitrary arguments.
SpecEncode == Init /\ [][NextEncode]_vars

(* A direct call scan_buttons(buttons) (lines 228-230) on any pin reading, *)
(* made before the loop's first tick.                                     *)
ScanCall ==
    /\ pc = "poll"
    /\ played = <<>>
    /\ state = Unassigned
    /\ \E levels \in AllLevels :
         /\ pins' = levels
         /\ state' = scan_buttons(levels)
    /\ UNCHANGED <<last_state, last_change, clock, pc, connections,
                   advertised, notified, reports, events, idle, played,
                   recording, call, irqs, logging, info_value, adv,
                   accepted_at, observing, steady, received, heard>>

\* A recorded run preceded by a direct scan of any pin reading.
SpecScan == InitRecorded /\ [][Next \/ ScanCall]_vars

(* A direct call advertising_payload(name=name, services=services) *)
AdvertisingPayloadCall ==
    /\ \E name \in Names, services \in ServiceLists :
         adv' = AdvertisingCall(name, services)
    /\ UNCHANGED <<last_state, last_change, state, clock, pc, connections,
                   advertised, notified, reports, events, idle, played,
                   recording, call, irqs, logging, pins, info_value,
                   accepted_at, observing, steady, received, heard>>

NextAdvertise == AdvertisingPayloadCall \/ IrqConnect \/ IrqDisconnect

\* The payload builder called directly with arbitrary arguments.
SpecAdvertise == Init /\ [][NextAdvertise]_vars

\* Observed runs: recorded runs with the peers' histories kept.
SpecObserved == InitObserved /\ [][Next]_vars

NextIrq == IrqConnect \/ IrqDisconnect

\* Logged runs: connection events alone, their history kept.
SpecIrq == InitLogged /\ [][NextIrq]_vars

---------------------------------------------------------------------------
(* Vocabulary of the properties *)

\* A step of the loop that takes a sample (lines 241-244).
PollStep == pc = "poll" /\ pc' # "poll"
\* A step that accepts a chord change.
AcceptStep == Len(events') > Len(events)
\* Modifier byte and pressed keycodes of a report, for either layout.
ReportModifier(r) == r[2]
ReportKeys(r) == {r[i] : i \in 3..Len(r)} \ {0}

\* The report of a mapped chord.
ChordReport(chord) ==
    LET c == CHOOSE c \in ComboGet(chord) : TRUE
    IN  key_press_report(c.modifier, c.keycodes)

\* The reports one accepted change must produce.
GroupOf(chord) ==
    <<release_all_report>> \o
    (IF ComboGet(chord) # {} THEN <<ChordReport(chord)>> ELSE <<>>)

RECURSIVE StreamOf(_)
StreamOf(chords) ==
    IF chords = <<>> THEN <<>>
    ELSE GroupOf(Head(chords)) \o StreamOf(Tail(chords))

---------------------------------------------------------------------------
(* C1: a tick whose sample differs from the stable chord while at most     *)
(* DEBOUNCE_MS true milliseconds have passed since the last accepted       *)
(* change (or since startup) accepts nothing and sends nothing; hence      *)
(* every accepted change comes more than DEBOUNCE_MS after the previous    *)
(* one, and the first more than DEBOUNCE_MS after startup.                 *)
C1_RejectionWindow ==
    /\ [][(PollStep /\ state' # last_state /\ idle <= DEBOUNCE_MS)
            => /\ pc' = "sleep"
               /\ UNCHANGED <<last_state, last_change, events, reports,
                              notified>>]_vars
    /\ [][AcceptStep => idle > DEBOUNCE_MS]_vars

\* A differing sample rejected exactly at the window's edge, for the
\* second sub-window tick in a row.
C1_Witness ==
    /\ ~recording
    /\ pc = "sleep"
    /\ state # Unassigned /\ state # last_state
    /\ idle = DEBOUNCE_MS
    /\ reports = <<>> /\ events = <<>>

(* C2: the reports sent so far are, group by group and in the order the    *)
(* changes were accepted, release-all followed by the chord's report (or   *)
(* release-all alone); a group is complete before the next sample, and     *)
(* inside a tick release-all is out before the chord's report.             *)
C2_Ordering ==
    LET n == Len(events)
        complete == IF pc \in {"release", "press"}
                    THEN SubSeq(events, 1, n - 1) ELSE events
        begun == IF pc = "press" THEN <<release_all_report>> ELSE <<>>
    IN  reports = StreamOf(complete) \o begun

\* Two accepted changes, into a mapped chord and then into the empty one.
C2_Witness ==
    /\ recording
    /\ pc = "sleep"
    /\ events = << <<0>>, <<>> >>
    /\ Len(reports) = 3
    /\ reports[2] # release_all_report

(* C3: for every modifier and every list of at most six keycodes the       *)
(* report key_press builds is eight bytes laid out as report id 1,         *)
(* modifier, reserved byte 0, then the keycodes from the fourth byte on,   *)
(* zero padded; the chord (0,2) yields [1, 2, 0, 4, 0, 0, 0, 0].           *)
C3_ReportLayout ==
    (call # NoCall /\ Len(call.keycodes) <= 6) =>
        LET r == call.report
            ks == call.keycodes
        IN  /\ Len(r) = 8
            /\ r[1] = 1
            /\ r[2] = call.modifier
            /\ r[3] = 0
            /\ \A i \in 4..8 :
                  r[i] = IF i - 3 <= Len(ks) THEN ks[i - 3] ELSE 0
            /\ (call.modifier = 2 /\ ks = <<KEY_CODES["A"]>>) =>
                  /\ r = ChordReport(<<0, 2>>)
                  /\ r = <<1, 2, 0, 4, 0, 0, 0, 0>>

\* The bytes of a report read by the KeyReport layout: report id,
\* modifier, reserved byte, keycode slots.
Decode(r) ==
    [report_id |-> r[1], modifier |-> r[2], reserved |-> r[3],
     keycodes |-> SubSeq(r, 4, Len(r))]

(* C4: decoding the report key_press builds from modifier m and keycodes   *)
(* ks (at most six) by the KeyReport layout gives back report id 1, m,     *)
(* and ks padded with zeros to exactly six slots.                          *)
C4_RoundTrip ==
    (call # NoCall /\ Len(call.keycodes) <= 6) =>
        LET d == Decode(call.report)
        IN  /\ d.report_id = 1
            /\ d.modifier = call.modifier
            /\ d.keycodes = call.keycodes \o Zeros(6 - Len(call.keycodes))

\* A chord with an entry of exactly these buttons in the combo mapping.
Mapped(chord) == \E c \in COMBO_MAP : c.chord = chord

(* C5: a tick that accepted a chord with no entry of exactly its buttons   *)
(* in the combo mapping has sent one report only, the release-all report   *)
(* (no modifier, no key); entries of a subset or superset do not count.    *)
C5_UnmappedReleaseOnly ==
    (~recording /\ pc = "sleep" /\ events # <<>> /\ ~Mapped(last_state)) =>
        /\ reports = <<release_all_report>>
        /\ ReportModifier(reports[1]) = 0
        /\ ReportKeys(reports[1]) = {}

\* The superset (0,1,2) of the mapped chords (0,1) and (0,2) was accepted.
C5_Witness ==
    /\ ~recording
    /\ pc = "sleep"
    /\ events = << <<0, 1, 2>> >>
    /\ last_state = <<0, 1, 2>>
    /\ reports = <<release_all_report>>

\* Every sample taken so far was the same chord.
AllPlayed(chord) == \A i \in 1..Len(played) : played[i] = chord

(* C6: a tick that samples the stable chord again accepts nothing and      *)
(* sends nothing; no chord is accepted twice in a row; and N identical     *)
(* samples from startup yield one event at most, exactly one once a        *)
(* pressed chord has been held for four ticks or more.                     *)
C6_Idempotence ==
    /\ [][(PollStep /\ state' = last_state)
            => /\ pc' = "sleep"
               /\ UNCHANGED <<last_state, last_change, events, reports,
                              notified>>]_vars
    /\ [](\A i \in 1..Len(events) :
             events[i] # (IF i = 1 THEN <<>> ELSE events[i - 1]))
    /\ [](\A S \in RecordedChoices :
             LET chord == scan_buttons(LevelsOf(S))
             IN  (recording /\ AllPlayed(chord)) =>
                    /\ Len(events) <= 1
                    /\ (pc = "sleep" /\ Len(played) >= 4 /\ chord # <<>>)
                          => events = <<chord>>)

\* Button 0 held for seven samples in a row: one event.
C6_Witness ==
    /\ recording
    /\ pc = "sleep"
    /\ Len(played) = 7 /\ AllPlayed(<<0>>)
    /\ state = last_state
    /\ events = << <<0>> >>

(* C7: a tick that samples a chord other than the stable one more than     *)
(* DEBOUNCE_MS true milliseconds after the last accepted change accepts    *)
(* it on that very tick: stable := raw, since := now, one event.           *)
C7_AcceptPastWindow ==
    [][(PollStep /\ state' # last_state /\ idle > DEBOUNCE_MS)
         => /\ pc' = "release"
            /\ last_state' = state'
            /\ last_change' = clock
            /\ events' = Append(events, state')]_vars

Scenario2 == << <<0>>, <<0>>, <<0>>, <<0>>, <<0, 1>>, <<0>>, <<0, 1>> >>

(* C8: the debounce state (last_state, last_change) changes only in a step *)
(* that accepts a change; and with (0,) accepted, then (0,1) seen inside   *)
(* the window, a bounce back to (0,) and (0,1) again past the window, the  *)
(* only change accepted after (0,) is the one to (0,1), whose report is    *)
(* SPACE.                                                                  *)
C8_TimerFrame ==
    /\ [][(last_state' # last_state \/ last_change' # last_change)
            => (PollStep /\ AcceptStep)]_vars
    /\ []((recording /\ played = Scenario2 /\ pc = "sleep") =>
             /\ events = << <<0>>, <<0, 1>> >>
             /\ Len(reports) = 4
             /\ reports[3] = release_all_report
             /\ ReportModifier(reports[4]) = 0
             /\ ReportKeys(reports[4]) = {KEY_CODES["SPACE"]})

\* The bouncing run has been played to its end.
C8_Witness ==
    /\ recording
    /\ played = Scenario2
    /\ pc = "sleep"
    /\ last_state = <<0, 1>>
    /\ Len(events) = 2

Scenario1 == << <<>>, <<0>>, <<0>>, <<0>> >>

(* C9: from the initial state the samples (), (0,), (0,), (0,) taken       *)
(* POLL_INTERVAL_MS apart give exactly one accepted change, to (0,), and   *)
(* exactly two reports: release-all, then modifier 0 with keycode F (9).   *)
C9_Scenario1 ==
    (recording /\ played = Scenario1 /\ pc = "sleep") =>
        /\ events = << <<0>> >>
        /\ last_state = <<0>>
        /\ Len(reports) = 2
        /\ reports[1][1] = 1
        /\ ReportModifier(reports[1]) = 0 /\ ReportKeys(reports[1]) = {}
        /\ reports[2][1] = 1
        /\ ReportModifier(reports[2]) = 0 /\ ReportKeys(reports[2]) = {9}

\* The four samples have been played and the change accepted.
C9_Witness ==
    /\ recording
    /\ played = Scenario1
    /\ pc = "sleep"
    /\ Len(events) = 1
    /\ Len(reports) = 2

(* C10: a send_report call issues one notification, carrying the report,   *)
(* to each handle of the connection set and to no other; with the set      *)
(* empty it issues none, and either way it leaves the connection set and   *)
(* the debounce state alone while the loop moves on.                       *)
C10_SendReport ==
    [][(Len(reports') = Len(reports) + 1) =>
          LET r == reports'[Len(reports')]
              n == Len(notified')
          IN  /\ n = Cardinality(connections)
              /\ {notified'[i].conn : i \in 1..n} = connections
              /\ \A i \in 1..n : notified'[i].report = r
              /\ connections = {} => notified' = <<>>
              /\ pc' # pc
              /\ UNCHANGED <<connections, last_state, last_change, state,
                             clock, events>>]_vars

\* Both reports of a change went out, the second to the two peers.
C10_Witness ==
    /\ ~recording
    /\ pc = "sleep"
    /\ Len(reports) = 2
    /\ connections = {1, 2}
    /\ Len(notified) = 2
    /\ notified[1].conn # notified[2].conn
    /\ notified[1].report = reports[2]

\* Both reports of a change were sent with no peer connected.
C10_WitnessNoPeer ==
    /\ ~recording
    /\ pc = "sleep"
    /\ Len(reports) = 2
    /\ connections = {}
    /\ advertised = 1
    /\ notified = <<>>

---------------------------------------------------------------------------
(* Connection bookkeeping *)

\* An _irq event was delivered in this step.
IrqStep == Len(irqs') = Len(irqs) + 1

\* The latest event logged for handle h (0 if none was).
RECURSIVE LatestEvent(_, _)
LatestEvent(log, h) ==
    IF log = <<>> THEN 0
    ELSE IF log[Len(log)].conn_handle = h THEN log[Len(log)].event
    ELSE LatestEvent(SubSeq(log, 1, Len(log) - 1), h)

\* C11: after any sequence of connect and disconnect events the connection
\* set holds exactly the handles whose most recent event is a connect; a
\* connect adds its handle and a disconnect removes it (the set is left as
\* it was if the handle is absent); every disconnect restarts advertising
\* and a connect does not.
C11_ConnectionSet ==
    /\ [](connections =
            {h \in Handles : LatestEvent(irqs, h) = IRQ_CENTRAL_CONNECT})
    /\ [][IrqStep =>
            LET e == irqs'[Len(irqs')]
                h == e.conn_handle
            IN  /\ e.event = IRQ_CENTRAL_CONNECT =>
                     /\ connections' = connections \cup {h}
                     /\ advertised' = 0
                /\ e.event = IRQ_CENTRAL_DISCONNECT =>
                     /\ connections' = connections \ {h}
                     /\ h \notin connections => connections' = connections
                     /\ advertised' = 1]_vars

\* Handle 2 was disconnected while absent, handle 1 connected, dropped and
\* connected again.
C11_Witness ==
    /\ logging
    /\ Len(irqs) = 4
    /\ irqs[1] = [event |-> IRQ_CENTRAL_CONNECT, conn_handle |-> 1]
    /\ irqs[2] = [event |-> IRQ_CENTRAL_DISCONNECT, conn_handle |-> 2]
    /\ irqs[3] = [event |-> IRQ_CENTRAL_DISCONNECT, conn_handle |-> 1]
    /\ irqs[4] = [event |-> IRQ_CENTRAL_CONNECT, conn_handle |-> 1]
    /\ connections = {1}
    /\ advertised = 0

\* C12: a connect or disconnect event changes the connection set only: the
\* stable chord and the timestamp of the last accepted change stay as they
\* are, no report is handed to send_report and no peer is notified.
C12_IrqFrame ==
    [][(connections' # connections \/ advertised' # advertised) =>
          UNCHANGED <<last_state, last_change, state, clock, pc, reports,
                      notified, events>>]_vars

\* Handle 1 connected between the two sends of an accepted change: the
\* release-all report went to nobody and the loop is about to send the key
\* report.
C12_Witness ==
    /\ ~recording
    /\ pc = "press"
    /\ last_state = <<0, 2>>
    /\ Len(reports) = 1
    /\ notified = <<>>
    /\ connections = {1}
    /\ advertised = 0

---------------------------------------------------------------------------
(* The sampler *)

Ascending(s) == \A i \in 1..(Len(s) - 1) : s[i] < s[i + 1]

\* The button indices whose pin reads low.
Pressed(levels) == {i \in 0..(Len(BUTTON_PINS) - 1) : levels[i + 1] = 0}

\* C13: a sample is the strictly ascending, duplicate-free sequence of
\* exactly the indices in [0, 6) whose pin reads low, so that two samples
\* are equal exactly when the same buttons are pressed (compared, for the
\* sample of a direct scan, with the sample of every reading); the stable
\* chord is always such a sequence.
C13_Sample ==
    /\ state # Unassigned =>
         /\ Ascending(state)
         /\ {state[i] : i \in 1..Len(state)} = Pressed(pins)
         /\ pc = "poll" =>
              \A levels \in AllLevels :
                  scan_buttons(levels) = state
                      <=> Pressed(levels) = Pressed(pins)
    /\ Ascending(last_state)
    /\ \A i \in 1..Len(last_state) :
         last_state[i] \in 0..(Len(BUTTON_PINS) - 1)

\* Buttons 1, 3 and 5 were read as pressed.
C13_Witness ==
    /\ pins = LevelsOf({1, 3, 5})
    /\ state = <<1, 3, 5>>

---------------------------------------------------------------------------
(* Data handed to the radio stack *)

\* C14: the HID information record written to the radio stack is exactly
\* four bytes: the HID version as an unsigned 16-bit little-endian number
\* (0x0111), one country code byte and one flags byte.
C14_HidInfo ==
    /\ Len(info_value) = 4
    /\ SubSeq(info_value, 1, 2) = PackH(273)
    /\ info_value[3] \in 0..255
    /\ info_value[4] \in 0..255

\* A walk over an advertising payload from position i on, each record a
\* length byte, a type byte and length - 1 value bytes: the records met,
\* and whether the walk ended exactly at the payload's end.
RECURSIVE Records(_, _)
Records(payload, i) ==
    IF i = Len(payload) + 1 THEN [exact |-> TRUE, recs |-> <<>>]
    ELSE IF i + 1 > Len(payload) \/ payload[i] < 1
              \/ i + payload[i] > Len(payload)
         THEN [exact |-> FALSE, recs |-> <<>>]
    ELSE LET rest == Records(payload, i + 1 + payload[i])
             rec == [ad_type |-> payload[i + 1],
                     value |-> SubSeq(payload, i + 2, i + payload[i])]
         IN  [exact |-> rest.exact, recs |-> <<rec>> \o rest.recs]

\* C15: for a device name and a list of 16-bit and 128-bit service UUIDs
\* the payload is the name record (type 0x09, the name's ASCII codes)
\* followed by one record for each UUID in order (type 0x03 with its 2
\* bytes little-endian, type 0x07 with its 16 bytes), each length byte being
\* the value's length plus one, so that a walk over the records ends
\* exactly at the payload's end; for "ChordyPad" and 0x1812 it is
\* 10, 0x09, "ChordyPad", 3, 0x03, 0x12, 0x18.
C15_AdvertisingPayload ==
    LET name == adv.name
        services == adv.services
        n == Len(services)
        walk == Records(adv.payload, 1)
        recs == walk.recs
    IN  (/\ name # <<>>
         /\ \A i \in 1..n : Len(services[i]) \in {2, 16}) =>
            /\ walk.exact
            /\ Len(recs) = n + 1
            /\ recs[1] = [ad_type |-> 9, value |-> Encode(name)]
            /\ \A i \in 1..n :
                 /\ recs[i + 1].value = services[i]
                 /\ recs[i + 1].ad_type = IF Len(services[i]) = 2 THEN 3 ELSE 7
            /\ (name = DefaultName /\ services = <<UUID16(6162)>>) =>
                   adv.payload = <<10, 9, 67, 104, 111, 114, 100, 121, 80,
                                   97, 100, 3, 3, 18, 24>>

\* A direct call with the name "K", a 128-bit and a 16-bit UUID.
C15_Witness ==
    /\ adv.name = <<"K">>
    /\ adv.services = <<UUID128, HID_UUID>>
    /\ Len(adv.payload) = 25

---------------------------------------------------------------------------
(* More than six keycodes *)

\* C16: key_press with more than six keycodes fails with an error and
\* sends no report; every entry of COMBO_MAP has at most six keycodes, so
\* the poll loop cannot make such a call.
C16_TooManyKeycodes ==
    /\ (call # NoCall /\ Len(call.keycodes) > 6) =>
           /\ call.report = PackError
           /\ reports = <<>>
           /\ notified = <<>>
    /\ \A c \in COMBO_MAP : Len(c.keycodes) <= 6

---------------------------------------------------------------------------
(* Persistence of a sample before it is trusted (recorded runs) *)

\* The number of the last sample before sample i at which a change was
\* accepted; 1, the sample taken as main() starts, if there is none.
RECURSIVE AcceptBefore(_, _)
AcceptBefore(i, j) ==
    IF j = 0 THEN 1
    ELSE IF accepted_at[j] < i THEN accepted_at[j]
    ELSE AcceptBefore(i, j - 1)

\* The stable chord when sample i was taken.
RECURSIVE StableBefore(_, _)
StableBefore(i, j) ==
    IF j = 0 THEN <<>>
    ELSE IF accepted_at[j] < i THEN events[j]
    ELSE StableBefore(i, j - 1)

\* True milliseconds between sample i and the last accepted change before it.
ElapsedAt(i) ==
    (i - AcceptBefore(i, Len(accepted_at))) * POLL_INTERVAL_MS

\* Sample i differs from the stable chord, from the sample before it and
\* from the sample after it.
SingleTick(i) ==
    /\ i < Len(played)
    /\ played[i] # StableBefore(i, Len(accepted_at))
    /\ i > 1 => played[i - 1] # played[i]
    /\ played[i + 1] # played[i]

\* C17 as stated: a raw value is accepted only after that same value has
\* been in the samples for longer than the debounce window, and a differing
\* value seen in a single tick only is never accepted.
C17_PersistedFirst ==
    /\ \A j \in 1..Len(accepted_at) :
         LET i == accepted_at[j]
         IN  \E s \in 1..i :
                /\ (i - s) * POLL_INTERVAL_MS > DEBOUNCE_MS
                /\ \A k \in s..i : played[k] = played[i]
    /\ \A i \in 1..Len(played) :
         SingleTick(i) => \A j \in 1..Len(accepted_at) : accepted_at[j] # i

\* C17, amended: a raw value is accepted only when it is sampled, differing
\* from the stable chord, more than the debounce window after the last
\* accepted change (or the start); it need not have been sampled before. A
\* differing value seen in a single tick only, no more than the window after
\* the last accepted change, is never accepted and causes no report: the
\* reports sent are those of the accepted changes alone.
C17_WindowFirst ==
    /\ Len(events) = Len(accepted_at)
    /\ \A j \in 1..Len(accepted_at) :
         LET i == accepted_at[j]
         IN  /\ i \in 1..Len(played)
             /\ events[j] = played[i]
             /\ played[i] # StableBefore(i, Len(accepted_at))
             /\ ElapsedAt(i) > DEBOUNCE_MS
    /\ \A i \in 1..Len(played) :
         (SingleTick(i) /\ ElapsedAt(i) <= DEBOUNCE_MS) =>
             \A j \in 1..Len(accepted_at) : accepted_at[j] # i
    /\ pc \in {"poll", "sleep"} => Len(reports) = Len(StreamOf(events))

\* Button 0 was accepted on the first tick it was seen at, 30 ms after the
\* start; button 1 then joined it for one tick, 10 ms later, and was gone
\* on the next without a change or a report.
C17_Witness ==
    /\ recording
    /\ pc = "sleep"
    /\ played = << <<>>, <<>>, <<>>, <<0>>, <<0, 1>>, <<0>> >>
    /\ accepted_at = <<4>>
    /\ events = << <<0>> >>
    /\ Len(reports) = 2

---------------------------------------------------------------------------
(* What the peers have received (observed runs) *)

\* The report that shows a chord to a host: the report of its COMBO_MAP
\* entry, or the release-all report if it has none.
ShownAs(chord) ==
    IF Mapped(chord) THEN ChordReport(chord) ELSE release_all_report

\* C18: at the end of every tick, each peer that has been connected ever
\* since the last accepted change was last sent the report of the stable
\* chord's COMBO_MAP entry, or the release-all report if the stable chord
\* has no entry or is empty; as long as no change has been accepted, no
\* report has been sent and the stable chord is empty.
C18_HostView ==
    /\ steady \subseteq connections
    /\ pc \in {"sleep", "poll"} =>
         /\ events # <<>> =>
              \A h \in steady : received[h] = ShownAs(last_state)
         /\ events = <<>> =>
              /\ reports = <<>>
              /\ last_state = <<>>
              /\ \A h \in Handles : received[h] = NoReport

\* Two changes were accepted, the second into the mapped chord (0, 1); peer
\* 1 was connected throughout and was sent its report last, peer 2 connected
\* after the reports had gone out and was sent nothing.
C18_Witness ==
    /\ observing
    /\ pc = "sleep"
    /\ events = << <<0>>, <<0, 1>> >>
    /\ connections = {1, 2}
    /\ steady = {1}
    /\ received[1] = ChordReport(<<0, 1>>)
    /\ received[2] = NoReport

---------------------------------------------------------------------------
(* The wrapping counter *)

\* C19: the decision of the elapsed-time test, made with ticks_diff on the
\* wrapping counter, is the decision made with the true time since the
\* last accepted change, however long that is (across a wraparound, beyond
\* half the counter's period): a sample is accepted exactly if it differs
\* from the stable chord and more than DEBOUNCE_MS have truly passed.
C19_TrueElapsed ==
    [][PollStep =>
          (AcceptStep <=> (state' # last_state /\ idle > DEBOUNCE_MS))]_vars

\* The current tick accepted a change.
AcceptedNow ==
    accepted_at # <<>> /\ accepted_at[Len(accepted_at)] = Len(played)

\* C20 as stated: with connect and disconnect events at any point of the
\* loop, also between the two sends of an accepted change, every peer that
\* is sent the key report of a change was sent the release-all report of
\* that change immediately before it, and no peer is sent a report after
\* its disconnect event has been processed.
C20_ReleaseBeforeKeys ==
    \A h \in Handles :
       /\ \A k \in 1..Len(heard[h]) :
            heard[h][k] # release_all_report =>
                k > 1 /\ heard[h][k - 1] = release_all_report
       /\ h \notin connections =>
            heard[h] = <<>> /\ received[h] = NoReport

\* C20, amended: every peer that is sent the key report of an accepted
\* change and has been connected since before that change was accepted was
\* sent the release-all report of that change immediately before it; any
\* other peer was sent, before the key report, that release-all report or
\* (having connected between the two sends) nothing; no peer is sent a
\* report after its disconnect event has been processed.
C20_ReleaseBeforeKeysIfConnected ==
    \A h \in Handles :
       /\ heard[h] # <<>> =>
            /\ AcceptedNow
            /\ heard[h] \in {GroupOf(last_state),
                             <<release_all_report>>,
                             Tail(GroupOf(last_state))}
       /\ (h \in steady /\ AcceptedNow) =>
            /\ pc = "press" => heard[h] = <<release_all_report>>
            /\ pc = "sleep" => heard[h] = GroupOf(last_state)
       /\ h \notin connections =>
            heard[h] = <<>> /\ received[h] = NoReport

\* Peer 1 was connected before the change to (0,) was accepted, peer 2
\* connected between the two sends: peer 1 was sent release-all and the key
\* report, peer 2 the key report alone.
C20_Witness ==
    /\ observing
    /\ pc = "sleep"
    /\ last_state = <<0>>
    /\ steady = {1}
    /\ connections = {1, 2}
    /\ heard[1] = <<release_all_report, ChordReport(<<0>>)>>
    /\ heard[2] = <<ChordReport(<<0>>)>>

===========================================================================
